---- MODULE Spec2Model ----
(***************************************************************************)
(* The canister execution engine of ic-kit-runtime (canister.rs): the      *)
(* Canister object, its builder methods, process_message with the          *)
(* execution thread behind it, and the system calls the Canister answers   *)
(* as Ic0CallHandlerProxy.                                                  *)
(***************************************************************************)
EXTENDS Integers, Sequences, FiniteSets, TLC

\* ------------------------------------------------------------ bounds

\* Width, in bits, that stands for the 64 bits of isize / usize / i64 / u64;
\* u128 is twice as wide. Arithmetic wraps or faults at these widths.
WordBits == 3
\* process_message calls in one run.
MaxMessages == 2
\* System calls a task issues in one run.
MaxReplyBytes == 4
MaxCalls == 2

WORD == 2 ^ WordBits
HALF == 2 ^ (WordBits - 1)
U128 == WORD * WORD

\* ------------------------------------------------------------ values

None == "None"

EntryModes ==
    {"Init", "PreUpgrade", "PostUpgrade", "InspectMessage", "Heartbeat",
     "Update", "Query", "CustomTask", "ReplyCallback", "RejectCallback"}

\* Signed machine integers (isize, i64) of the model's width.
SignedWords == (0 - HALF) .. (HALF - 1)

\* `x as usize`, `x as u64`: the two's complement bit pattern.
AsUnsigned(x) == x % WORD

\* `x as u128` for a signed 64-bit x: sign extension.
AsU128(x) == x % U128

\* `a as i64` for an u128 a: truncation to the low word, read as signed.
U128AsI64(a) ==
    LET low == a % WORD
    IN  IF low >= HALF THEN low - WORD ELSE low

Min(a, b) == IF a <= b THEN a ELSE b

Ok(v) == [k |-> "Ok", v |-> v]
\* An error's text is a tuple of the strings it is built from.
Err(text) == [k |-> "Err", v |-> text]
Panic(text) == [k |-> "Panic", v |-> text]

\* Env::get_entry_point_name: the name of the entry mode the Env carries.
get_entry_point_name(env) ==
    CASE env.entry_mode = "Init" -> "canister_init"
      [] env.entry_mode = "PreUpgrade" -> "canister_pre_upgrade"
      [] env.entry_mode = "PostUpgrade" -> "canister_post_upgrade"
      [] env.entry_mode = "InspectMessage" -> "canister_inspect_message"
      [] env.entry_mode = "Heartbeat" -> "canister_heartbeat"
      [] env.entry_mode = "Update" -> "canister_update"
      [] env.entry_mode = "Query" -> "canister_query"
      [] env.entry_mode = "CustomTask" -> "ic-kit: custom task"
      [] env.entry_mode = "ReplyCallback" -> "reply callback"
      [] env.entry_mode = "RejectCallback" -> "reject callback"

\* format!("{} can not be called from '{}'", call, env.get_entry_point_name())
ModeError(call, env) ==
    Err(<<call, "can not be called from", get_entry_point_name(env)>>)

\* The Env a Canister is constructed with (Env::default()): its values are
\* not fixed by canister.rs, so every entry mode is a possible one.
EnvDefaults ==
    [entry_mode : EntryModes,
     args : {<<1, 2, 3>>},
     sender : {<<7, 7>>},
     cycles_available : {5},
     cycles_refunded : {2},
     rejection_code : {4},
     rejection_message : {<<110, 111>>}]

\* The result of one system call: the Canister afterwards, the value
\* returned to the caller, the CanisterReply sent on a response channel (<<>>
\* for none, <<reply>>) and the bytes written to the caller's memory (or None).
Result(c, ret) == [c |-> c, ret |-> ret, sent |-> <<>>, wrote |-> None]

\* ------------------------------------------------------------ maps

EmptyMap == [x \in {} |-> 0]
MapPut(m, key, v) == [x \in (DOMAIN m) \cup {key} |-> IF x = key THEN v ELSE m[x]]
MapRemove(m, key) == [x \in (DOMAIN m) \ {key} |-> m[x]]

\* ------------------------------------------------------------ state

VARIABLES
    canister,          \* the Canister object: its fields
    overflow_checks,   \* the build: TRUE when integer overflow faults (debug)
    task_q,            \* task_tx -> task_rx
    completion_q,      \* task_completion_tx -> task_completion_rx
    exec,              \* the execution thread: where it is, what it holds
    pm,                \* process_message: where it is, the message it was given,
                       \* the calls made so far and how many reported a fault
    delivered,         \* the CanisterReply values sent on response channels
    last,              \* the most recent call on the Canister and its result
    request_q,         \* request_tx -> request_rx
    reply_q,           \* reply_tx -> reply_rx
    handler,           \* the task's side of the system calls: those it issued,
                       \* the responses it got, whether it waits for one
    stores             \* the values kept for one type T: in the thread's STORAGE
                       \* and in the IcContext's storage (<<>> for none, <<v>>)

vars ==
    <<canister, overflow_checks, task_q, completion_q, exec, pm, delivered, last,
      request_q, reply_q, handler, stores>>

\* Nothing stored for T.
NoStores == [storage |-> <<>>, context |-> <<>>]

\* The channels and bookkeeping of the system calls a task issues.
calls == <<request_q, reply_q, handler>>

\* The execution thread holds no task.
NoTask == [fn |-> "", seq |-> 0]

\* A task that has issued no system call.
NoCalls == [pc |-> "running", issued |-> <<>>, received |-> <<>>]

\* ------------------------------------------------------------ memory copies

\* copy_to_canister(dst, offset, size, data): the value returned and the
\* bytes written at dst. `offset + size` is an usize addition: it faults in
\* a build with overflow checks and wraps otherwise, and the slice
\* data[offset..offset + size] faults when its start is past its end.
copy_to_canister(offset, size, data) ==
    LET o == AsUnsigned(offset)
        s == AsUnsigned(size)
        sum == o + s
        end == sum % WORD
    IN  IF sum >= WORD /\ overflow_checks
        THEN [ret |-> Panic("attempt to add with overflow"), wrote |-> None]
        ELSE IF end > Len(data)
        THEN [ret |-> Err(<<"Out of bound read.">>), wrote |-> None]
        ELSE IF o > end
        THEN [ret |-> Panic("slice index starts past its end"), wrote |-> None]
        ELSE [ret |-> Ok(<<>>), wrote |-> SubSeq(data, o + 1, end)]

\* A copying system call: `copy_to_canister(dst, offset, size, data)?; Ok(())`.
CopyOut(c, offset, size, data) ==
    LET r == copy_to_canister(offset, size, data)
    IN  [c |-> c, ret |-> r.ret, sent |-> <<>>, wrote |-> r.wrote]

\* String::from_utf8_lossy: a byte that is not UTF-8 becomes U+FFFD.
from_utf8_lossy(bytes) ==
    [i \in 1 .. Len(bytes) |-> IF bytes[i] >= 128 THEN 65533 ELSE bytes[i]]

\* u128::to_le_bytes, in limbs of one word: low limb first.
to_le_bytes(a) == <<a % WORD, a \div WORD>>

\* ------------------------------------------------------------ mode gates

\* Gates other than the ones written: the caller calls let through in
\* Heartbeat too, msg_reject_code refused in ReplyCallback, msg_reply refused
\* in CustomTask.
caller_modes_with_heartbeat ==
    {"CustomTask", "Init", "PostUpgrade", "PreUpgrade", "Update", "Query",
     "InspectMessage", "Heartbeat"}
reject_code_modes_without_reply == {"CustomTask", "RejectCallback"}
reply_modes_without_custom == {"Update", "Query", "ReplyCallback", "RejectCallback"}

\* The entry modes each system call's `match self.env.entry_mode` lets through.
msg_arg_data_size_modes ==
    {"CustomTask", "Init", "Update", "Query", "ReplyCallback", "InspectMessage"}
msg_arg_data_copy_modes ==
    {"CustomTask", "Init", "PostUpgrade", "Update", "Query", "ReplyCallback",
     "InspectMessage"}
msg_caller_size_modes ==
    {"CustomTask", "Init", "PostUpgrade", "PreUpgrade", "Update", "Query",
     "InspectMessage"}
msg_caller_copy_modes ==
    {"CustomTask", "Init", "PostUpgrade", "PreUpgrade", "Update", "Query",
     "InspectMessage"}
msg_reject_code_modes == {"CustomTask", "ReplyCallback", "RejectCallback"}
msg_reject_msg_size_modes == {"CustomTask", "RejectCallback"}
msg_reject_msg_copy_modes == {"CustomTask", "RejectCallback"}
msg_reply_data_append_modes ==
    {"CustomTask", "Update", "Query", "ReplyCallback", "RejectCallback"}
msg_reply_modes == {"CustomTask", "Update", "Query", "ReplyCallback", "RejectCallback"}
msg_reject_modes == {"CustomTask", "Update", "Query", "ReplyCallback", "RejectCallback"}
msg_cycles_available_modes == {"CustomTask", "Update", "ReplyCallback", "RejectCallback"}
msg_cycles_available128_modes ==
    {"CustomTask", "Update", "ReplyCallback", "RejectCallback"}
msg_cycles_refunded_modes == {"CustomTask", "ReplyCallback", "RejectCallback"}
msg_cycles_refunded128_modes == {"CustomTask", "ReplyCallback", "RejectCallback"}
msg_cycles_accept_modes == {"CustomTask", "Update", "ReplyCallback", "RejectCallback"}
msg_cycles_accept128_modes == {"CustomTask", "Update", "ReplyCallback", "RejectCallback"}

\* self.request_id.expect("ic-kit: Unexpected canister state, request_id not set.")
RequestIdNotSet == Panic("ic-kit: Unexpected canister state, request_id not set.")

\* ------------------------------------------------------------ system calls
\* Each is the Ic0CallHandlerProxy method of the same name, as a function of
\* the Canister c it is called on.

msg_arg_data_size(c) ==
    IF c.env.entry_mode \in msg_arg_data_size_modes
    THEN Result(c, Ok(Len(c.env.args)))
    ELSE Result(c, ModeError("msg_arg_data_size", c.env))

msg_arg_data_copy(c, offset, size) ==
    IF c.env.entry_mode \in msg_arg_data_copy_modes
    THEN CopyOut(c, offset, size, c.env.args)
    ELSE Result(c, ModeError("msg_arg_data_copy", c.env))

msg_caller_size(c) ==
    IF c.env.entry_mode \in msg_caller_size_modes
    THEN Result(c, Ok(Len(c.env.sender)))
    ELSE Result(c, ModeError("msg_caller_size", c.env))

msg_caller_copy(c, offset, size) ==
    IF c.env.entry_mode \in msg_caller_copy_modes
    THEN CopyOut(c, offset, size, c.env.sender)
    ELSE Result(c, ModeError("msg_caller_copy", c.env))

msg_reject_code(c) ==
    IF c.env.entry_mode \in msg_reject_code_modes
    THEN Result(c, Ok(c.env.rejection_code))
    ELSE Result(c, ModeError("msg_reject_code", c.env))

msg_reject_msg_size(c) ==
    IF c.env.entry_mode \in msg_reject_msg_size_modes
    THEN Result(c, Ok(Len(c.env.rejection_message)))
    ELSE Result(c, ModeError("msg_reject_msg_size", c.env))

msg_reject_msg_copy(c, offset, size) ==
    IF c.env.entry_mode \in msg_reject_msg_copy_modes
    THEN CopyOut(c, offset, size, c.env.rejection_message)
    ELSE Result(c, ModeError("msg_reject_msg_copy", c.env))

\* The reply buffer the Canister c holds for its active request.
ReplyBuffer(c) ==
    IF c.request_id \in DOMAIN c.msg_reply_data THEN c.msg_reply_data[c.request_id] ELSE <<>>

\* `bytes` is what copy_from_canister(src, size) reads from the caller.
msg_reply_data_append(c, bytes) ==
    IF c.env.entry_mode \notin msg_reply_data_append_modes
    THEN Result(c, ModeError("msg_reply_data_append", c.env))
    ELSE IF c.request_id = None
    THEN Result(c, RequestIdNotSet)
    ELSE IF c.request_id \notin DOMAIN c.msg_reply_senders
    THEN Result(c, Err(<<"msg_reply_data_append may only be invoked before canister responses.">>))
    ELSE LET id == c.request_id
             old == IF id \in DOMAIN c.msg_reply_data THEN c.msg_reply_data[id] ELSE <<>>
         IN  Result([c EXCEPT !.msg_reply_data = MapPut(@, id, old \o bytes)], Ok(<<>>))

\* msg_reply that leaves cycles_available as it was after the refund.
msg_reply_keeps_cycles(c) ==
    IF c.env.entry_mode \notin msg_reply_modes
    THEN Result(c, ModeError("msg_reply", c.env))
    ELSE IF c.request_id = None
    THEN Result(c, RequestIdNotSet)
    ELSE IF c.request_id \notin DOMAIN c.msg_reply_senders
    THEN Result(c, Err(<<"msg_reply may only be invoked before canister responses.">>))
    ELSE LET id == c.request_id
         IN  [c |-> [c EXCEPT !.msg_reply_senders = MapRemove(@, id),
                              !.msg_reply_data = MapRemove(@, id)],
              ret |-> Ok(<<>>),
              sent |-> <<[id |-> id, chan |-> c.msg_reply_senders[id], kind |-> "Reply",
                        data |-> ReplyBuffer(c),
                        cycles_refunded |-> c.env.cycles_available]>>,
              wrote |-> None]

\* msg_reject that keeps the reply buffer of the request it answers.
msg_reject_keeps_buffer(c, bytes) ==
    IF c.env.entry_mode \notin msg_reject_modes
    THEN Result(c, ModeError("msg_reject", c.env))
    ELSE IF c.request_id = None
    THEN Result(c, RequestIdNotSet)
    ELSE IF c.request_id \notin DOMAIN c.msg_reply_senders
    THEN Result(c, Err(<<"msg_reject may only be invoked before canister responses.">>))
    ELSE LET id == c.request_id
         IN  [c |-> [c EXCEPT !.msg_reply_senders = MapRemove(@, id),
                              !.env.cycles_available = 0],
              ret |-> Ok(<<>>),
              sent |-> <<[id |-> id, chan |-> c.msg_reply_senders[id], kind |-> "Reject",
                        rejection_code |-> "CanisterReject",
                        rejection_message |-> from_utf8_lossy(bytes),
                        cycles_refunded |-> c.env.cycles_available]>>,
              wrote |-> None]

msg_reply(c) ==
    IF c.env.entry_mode \notin msg_reply_modes
    THEN Result(c, ModeError("msg_reply", c.env))
    ELSE IF c.request_id = None
    THEN Result(c, RequestIdNotSet)
    ELSE IF c.request_id \notin DOMAIN c.msg_reply_senders
    THEN Result(c, Err(<<"msg_reply may only be invoked before canister responses.">>))
    ELSE LET id == c.request_id
             data == IF id \in DOMAIN c.msg_reply_data THEN c.msg_reply_data[id] ELSE <<>>
         IN  [c |-> [c EXCEPT !.msg_reply_senders = MapRemove(@, id),
                              !.msg_reply_data = MapRemove(@, id),
                              !.env.cycles_available = 0],
              ret |-> Ok(<<>>),
              sent |-> <<[id |-> id, chan |-> c.msg_reply_senders[id], kind |-> "Reply",
                        data |-> data, cycles_refunded |-> c.env.cycles_available]>>,
              wrote |-> None]

msg_reject(c, bytes) ==
    IF c.env.entry_mode \notin msg_reject_modes
    THEN Result(c, ModeError("msg_reject", c.env))
    ELSE IF c.request_id = None
    THEN Result(c, RequestIdNotSet)
    ELSE IF c.request_id \notin DOMAIN c.msg_reply_senders
    THEN Result(c, Err(<<"msg_reject may only be invoked before canister responses.">>))
    ELSE LET id == c.request_id
         IN  [c |-> [c EXCEPT !.msg_reply_senders = MapRemove(@, id),
                              !.msg_reply_data = MapRemove(@, id),
                              !.env.cycles_available = 0],
              ret |-> Ok(<<>>),
              sent |-> <<[id |-> id, chan |-> c.msg_reply_senders[id], kind |-> "Reject",
                        rejection_code |-> "CanisterReject",
                        rejection_message |-> from_utf8_lossy(bytes),
                        cycles_refunded |-> c.env.cycles_available]>>,
              wrote |-> None]

msg_cycles_available(c) ==
    IF c.env.entry_mode \notin msg_cycles_available_modes
    THEN Result(c, ModeError("msg_cycles_available", c.env))
    ELSE IF c.env.cycles_available > WORD - 1
    THEN Result(c, Err(<<"available cycles does not fit in u64">>))
    ELSE Result(c, Ok(U128AsI64(c.env.cycles_available)))

msg_cycles_available128(c) ==
    IF c.env.entry_mode \in msg_cycles_available128_modes
    THEN CopyOut(c, 0, 2, to_le_bytes(c.env.cycles_available))
    ELSE Result(c, ModeError("msg_cycles_available128", c.env))

msg_cycles_refunded(c) ==
    IF c.env.entry_mode \notin msg_cycles_refunded_modes
    THEN Result(c, ModeError("msg_cycles_refunded", c.env))
    ELSE IF c.env.cycles_refunded > WORD - 1
    THEN Result(c, Err(<<"refunded cycles does not fit in u64">>))
    ELSE Result(c, Ok(U128AsI64(c.env.cycles_refunded)))

msg_cycles_refunded128(c) ==
    IF c.env.entry_mode \in msg_cycles_refunded128_modes
    THEN CopyOut(c, 0, 2, to_le_bytes(c.env.cycles_refunded))
    ELSE Result(c, ModeError("msg_cycles_refunded128", c.env))

\* u128 `a + b` and `a * b`: a fault in a build with overflow checks, the
\* wrapped value otherwise.
Add128(a, b) ==
    IF a + b >= U128 /\ overflow_checks
    THEN Panic("attempt to add with overflow")
    ELSE Ok((a + b) % U128)

Mul128(a, b) ==
    IF a * b >= U128 /\ overflow_checks
    THEN Panic("attempt to multiply with overflow")
    ELSE Ok((a * b) % U128)

\* `self.env.cycles_available.min(max_amount as u128)` of msg_cycles_accept.
accept_amount(cycles_available, max_amount) ==
    Min(cycles_available, AsU128(max_amount))

\* `(max_amount_high as u128) + (max_amount_low as u128) * (u64::MAX as u128 + 1)`
\* of msg_cycles_accept128.
accept128_max_amount(max_amount_high, max_amount_low) ==
    LET product == Mul128(AsU128(max_amount_low), WORD)
    IN  IF product.k = "Panic"
        THEN product
        ELSE Add128(AsU128(max_amount_high), product.v)

\* `self.env.cycles_available.min(max_amount)` of msg_cycles_accept128.
accept128_amount(cycles_available, max_amount_high, max_amount_low) ==
    LET m == accept128_max_amount(max_amount_high, max_amount_low)
    IN  IF m.k = "Panic" THEN m ELSE Ok(Min(cycles_available, m.v))

\* AcceptMoves that gives the amount back to cycles_available.
accept_moves_gives_back(c, id, amount, ret, wrote) ==
    [c |-> [c EXCEPT !.env.cycles_available = @ + amount,
                     !.cycles_accepted = (@ + amount) % U128,
                     !.cycles_available_store =
                         MapPut(@, id, c.env.cycles_available + amount)],
     ret |-> ret, sent |-> <<>>, wrote |-> wrote]

\* The moves both accept calls make once the amount is known.
AcceptMoves(c, id, amount, ret, wrote) ==
    LET taken == [c EXCEPT !.env.cycles_available = @ - amount]
        total == Add128(c.cycles_accepted, amount)
    IN  IF total.k = "Panic"
        THEN Result(taken, total)
        ELSE [c |-> [taken EXCEPT
                        !.cycles_accepted = total.v,
                        !.cycles_available_store =
                            MapPut(@, id, taken.env.cycles_available)],
              ret |-> ret, sent |-> <<>>, wrote |-> wrote]

\* msg_cycles_accept that takes the cycles before it looks at the entry mode.
msg_cycles_accept_moves_first(c, max_amount) ==
    LET amount == accept_amount(c.env.cycles_available, max_amount)
        moved == [c EXCEPT !.env.cycles_available = @ - amount,
                           !.cycles_accepted = (@ + amount) % U128]
    IN  IF c.env.entry_mode \notin msg_cycles_accept_modes
        THEN Result(moved, ModeError("msg_cycles_accept", c.env))
        ELSE IF c.request_id = None
        THEN Result(moved, RequestIdNotSet)
        ELSE Result([moved EXCEPT !.cycles_available_store =
                                      MapPut(@, c.request_id, moved.env.cycles_available)],
                    Ok(U128AsI64(amount)))

msg_cycles_accept(c, max_amount) ==
    IF c.env.entry_mode \notin msg_cycles_accept_modes
    THEN Result(c, ModeError("msg_cycles_accept", c.env))
    ELSE IF c.request_id = None
    THEN Result(c, RequestIdNotSet)
    ELSE LET amount == accept_amount(c.env.cycles_available, max_amount)
         IN  AcceptMoves(c, c.request_id, amount, Ok(U128AsI64(amount)), None)

msg_cycles_accept128(c, max_amount_high, max_amount_low) ==
    IF c.env.entry_mode \notin msg_cycles_accept128_modes
    THEN Result(c, ModeError("msg_cycles_accept128", c.env))
    ELSE IF c.request_id = None
    THEN Result(c, RequestIdNotSet)
    ELSE LET amount ==
                accept128_amount(c.env.cycles_available, max_amount_high, max_amount_low)
         IN  IF amount.k = "Panic"
             THEN Result(c, amount)
             ELSE AcceptMoves(c, c.request_id, amount.v, Ok(<<>>), to_le_bytes(amount.v))

canister_self_size(c) == Result(c, Ok(Len(c.canister_id)))

canister_self_copy(c, offset, size) == CopyOut(c, offset, size, c.canister_id)

\* The calls the proxy declares and leaves as `todo!()`.
Unimplemented ==
    {"canister_cycle_balance", "canister_cycle_balance128", "canister_status",
     "msg_method_name_size", "msg_method_name_copy", "accept_message", "call_new",
     "call_on_cleanup", "call_data_append", "call_cycles_add", "call_cycles_add128",
     "call_perform", "stable_size", "stable_grow", "stable_write", "stable_read",
     "stable64_size", "stable64_grow", "stable64_write", "stable64_read",
     "certified_data_set", "data_certificate_present", "data_certificate_size",
     "data_certificate_copy", "time", "performance_counter", "debug_print", "trap"}

\* An unfinished call that returns a value instead of halting.
todo_returns(c) == Result(c, Ok(0))

\* todo!()
todo(c) == Result(c, Panic("not yet implemented"))

\* ------------------------------------------------------------ the engine

\* Canister::new: balance 100_000_000_000_000 in the source, a value of the
\* model's u128 here.
DefaultBalance == 10
\* mpsc::channel(8)
ChannelCapacity == 8

\* The principal bytes of the canister id given to Canister::new.
CanisterIdBytes == <<9, 9>>

NewCanister(env) ==
    [canister_id |-> CanisterIdBytes,
     balance |-> DefaultBalance,
     symbol_table |-> EmptyMap,
     msg_reply_data |-> EmptyMap,
     msg_reply_senders |-> EmptyMap,
     cycles_available_store |-> EmptyMap,
     cycles_accepted |-> 0,
     outgoing_calls |-> EmptyMap,
     env |-> env,
     request_id |-> None]

\* Export names and the canister methods (types implementing CanisterMethod)
\* a caller registers; two methods may carry the same export name.
ExportNames == {"canister_query echo"}
Methods == {"echo", "add"}

\* The task process_message sends: the closure it builds itself.
PlaceholderTask == "println"

\* with_method without the contains_key check: insert replaces the entry.
with_method_overwrites(c, name, task_fn) ==
    Result([c EXCEPT !.symbol_table = MapPut(@, name, task_fn)], Ok(<<>>))

\* with_method::<M>(): M::EXPORT_NAME is `name`, M::exported_method is `task_fn`.
with_method(c, name, task_fn) ==
    IF name \in DOMAIN c.symbol_table
    THEN Result(c, Panic(<<"The canister already has a method", name>>))
    ELSE Result([c EXCEPT !.symbol_table = MapPut(@, name, task_fn)], Ok(<<>>))

with_balance(c, balance) == Result([c EXCEPT !.balance = balance], Ok(<<>>))

\* ------------------------------------------------------------ execution thread

\* What running a task can end in: a return, or a panic whose payload is a
\* &'static str, a String, or a value of another type.
PanicTexts == {"", "boom"}
TaskOutcomes ==
    {[k |-> "return", ty |-> "", text |-> ""]}
        \cup [k : {"panic"}, ty : {"str", "String"}, text : PanicTexts]
        \cup {[k |-> "panic", ty |-> "other", text |-> ""]}

\* downcast_panic_payload without its String arm.
downcast_str_only(payload) ==
    IF payload.ty = "str" THEN payload.text ELSE "Box<Any>"

downcast_panic_payload(payload) ==
    IF payload.ty = "str" THEN payload.text
    ELSE IF payload.ty = "String" THEN payload.text
    ELSE "Box<Any>"

\* `if let Err(payload) = catch_unwind(|| task()) { Panicked(..) } else { Ok }`
isolate(outcome) ==
    IF outcome.k = "panic"
    THEN [k |-> "Panicked", v |-> downcast_panic_payload(outcome)]
    ELSE [k |-> "Ok", v |-> ""]

\* A panic hook that reports the panic too: two signals for a task that panics.
signals_with_hook(task, outcome, completion) ==
    IF outcome.k = "panic"
    THEN <<[c |-> completion, task |-> task, outcome |-> outcome],
           [c |-> completion, task |-> task, outcome |-> outcome]>>
    ELSE <<[c |-> completion, task |-> task, outcome |-> outcome]>>

\* The execution thread sending no completion signal for a task that panicked.
signals_lost_on_panic(task, outcome, completion) ==
    IF outcome.k = "panic"
    THEN <<>>
    ELSE <<[c |-> completion, task |-> task, outcome |-> outcome]>>

\* The completion signals sent for one task: the panic hook set for the
\* thread sends none, the loop sends one. `task` and `outcome` tell which
\* task the signal came from and how that task ended.
signals(task, outcome, completion) ==
    <<[c |-> completion, task |-> task, outcome |-> outcome]>>

\* ------------------------------------------------------------ inputs

\* offset / size arguments of the copying calls, as isize values.
CopyArgs == {-1, 0, 2, 3}
\* max_amount arguments of the accept calls, as i64 values.
AmountArgs == {-1, 0, 3}
\* Byte strings a caller passes by (src, size).
ByteStrings == {<<>>, <<1, 200>>}
\* Balances given to with_balance.
Balances == {7}

\* The messages given to process_message: an export name and an Env.
QueryEnv ==
    [entry_mode |-> "Query", args |-> <<1, 2, 3>>, sender |-> <<7, 7>>,
     cycles_available |-> 0, cycles_refunded |-> 0, rejection_code |-> 0,
     rejection_message |-> <<>>]
Messages == [name : ExportNames, env : {QueryEnv}]

\* ------------------------------------------------------------ actions

Init ==
    /\ \E env \in EnvDefaults : canister = NewCanister(env)
    /\ overflow_checks \in BOOLEAN
    /\ task_q = <<>>
    /\ completion_q = <<>>
    /\ exec = [pc |-> "recv", task |-> NoTask, c |-> <<>>]
    /\ pm = [pc |-> "idle", calls |-> 0, message |-> None, task |-> None,
             replies_before |-> 0, faults |-> 0]
    /\ delivered = <<>>
    /\ last = [op |-> "new", args |-> <<>>, pre |-> None, ret |-> Ok(<<>>),
               sent |-> <<>>, wrote |-> None]
    /\ request_q = <<>>
    /\ reply_q = <<>>
    /\ handler = NoCalls
    /\ stores = NoStores

\* One call on the Canister by its owner, outside process_message: r is the
\* call's result. A panic unwinds the owner's thread.
Call(op, args, r) ==
    /\ pm.pc = "idle"
    /\ canister' = r.c
    /\ last' = [op |-> op, args |-> args, pre |-> canister, ret |-> r.ret,
                sent |-> r.sent, wrote |-> r.wrote]
    /\ delivered' = delivered \o r.sent
    /\ pm' = IF r.ret.k = "Panic" THEN [pm EXCEPT !.pc = "panicked"] ELSE pm
    /\ UNCHANGED <<overflow_checks, task_q, completion_q, exec>>
    /\ UNCHANGED calls
    /\ UNCHANGED stores

WithMethod ==
    \E name \in ExportNames, m \in Methods :
        Call("with_method", [name |-> name, task_fn |-> m], with_method(canister, name, m))

WithBalance ==
    \E b \in Balances : Call("with_balance", [balance |-> b], with_balance(canister, b))

\* process_message, up to its select loop, for the task `task_fn` it sends:
\* drain task_completion_rx, send the task.
Submit(task_fn) ==
    \E m \in Messages :
        /\ pm.pc = "idle"
        /\ pm.calls < MaxMessages
        /\ Len(task_q) < ChannelCapacity
        /\ LET task == [fn |-> task_fn, seq |-> pm.calls + 1]
           IN  /\ task_q' = Append(task_q, task)
               /\ pm' = [pc |-> "select", calls |-> pm.calls + 1, message |-> m,
                         task |-> task, replies_before |-> Len(delivered),
                         faults |-> pm.faults]
               /\ last' = [op |-> "process_message", args |-> [message |-> m, task |-> task],
                           pre |-> canister, ret |-> [k |-> "Running", v |-> <<>>],
                           sent |-> <<>>, wrote |-> None]
        /\ completion_q' = <<>>
        /\ UNCHANGED <<canister, overflow_checks, exec, delivered>>
        /\ UNCHANGED calls
        /\ UNCHANGED stores

\* process_message as written: the task is the closure it builds itself.
ProcessMessageSubmit == Submit(PlaceholderTask)

\* The select loop's first arm: a completion signal arrives, process_message
\* returns. (The task sent issues no system call, so the second arm has no
\* request to receive.)
ProcessMessageReturn ==
    /\ pm.pc = "select"
    /\ completion_q # <<>>
    /\ completion_q' = Tail(completion_q)
    /\ pm' = [pm EXCEPT !.pc = "idle",
                         !.faults = IF Head(completion_q).c.k = "Panicked"
                                    THEN @ + 1 ELSE @]
    /\ last' = [last EXCEPT !.ret = Ok(Head(completion_q))]
    /\ UNCHANGED <<canister, overflow_checks, task_q, exec, delivered>>
    /\ UNCHANGED calls
    /\ UNCHANGED stores

\* The execution thread: `task_rx.recv().await`.
ExecRecv ==
    /\ exec.pc = "recv"
    /\ task_q # <<>>
    /\ exec' = [pc |-> "run", task |-> Head(task_q), c |-> <<>>]
    /\ task_q' = Tail(task_q)
    /\ handler' = NoCalls
    /\ UNCHANGED <<canister, overflow_checks, completion_q, pm, delivered, last>>
    /\ UNCHANGED <<request_q, reply_q, stores>>

\* The execution thread runs the task inside catch_unwind.
ExecRun ==
    \E outcome \in TaskOutcomes :
        /\ exec.pc = "run"
        /\ handler.pc = "running"
        /\ LET c == isolate(outcome)
           IN  exec' = IF c.k = "Unwound"
                       THEN [exec EXCEPT !.pc = "dead"]
                       ELSE [exec EXCEPT !.pc = "send",
                                         !.c = signals(exec.task, outcome, c)]
        /\ UNCHANGED <<canister, overflow_checks, task_q, completion_q, pm, delivered, last>>
        /\ UNCHANGED calls
        /\ UNCHANGED stores

\* The execution thread: `task_completion_tx.send(c).await`.
ExecSend ==
    /\ exec.pc = "send"
    /\ Len(completion_q) < ChannelCapacity
    /\ completion_q' = Append(completion_q, Head(exec.c))
    /\ exec' = IF Len(exec.c) > 1
               THEN [exec EXCEPT !.c = Tail(exec.c)]
               ELSE [pc |-> "recv", task |-> NoTask, c |-> <<>>]
    /\ UNCHANGED <<canister, overflow_checks, task_q, pm, delivered, last>>
    /\ UNCHANGED calls
    /\ UNCHANGED stores

\* ------------------------------------------------------------ system call actions

CallMsgArgDataSize == Call("msg_arg_data_size", <<>>, msg_arg_data_size(canister))

CallMsgArgDataCopy ==
    \E offset \in CopyArgs, size \in CopyArgs :
        Call("msg_arg_data_copy", [offset |-> offset, size |-> size],
             msg_arg_data_copy(canister, offset, size))

CallMsgCallerSize == Call("msg_caller_size", <<>>, msg_caller_size(canister))

CallMsgCallerCopy ==
    \E offset \in CopyArgs, size \in CopyArgs :
        Call("msg_caller_copy", [offset |-> offset, size |-> size],
             msg_caller_copy(canister, offset, size))

CallMsgRejectCode == Call("msg_reject_code", <<>>, msg_reject_code(canister))

CallMsgRejectMsgSize == Call("msg_reject_msg_size", <<>>, msg_reject_msg_size(canister))

CallMsgRejectMsgCopy ==
    \E offset \in CopyArgs, size \in CopyArgs :
        Call("msg_reject_msg_copy", [offset |-> offset, size |-> size],
             msg_reject_msg_copy(canister, offset, size))

CallMsgReplyDataAppend ==
    \E bytes \in ByteStrings :
        /\ Len(ReplyBuffer(canister)) + Len(bytes) <= MaxReplyBytes
        /\ Call("msg_reply_data_append", [bytes |-> bytes],
                msg_reply_data_append(canister, bytes))

CallMsgReply == Call("msg_reply", <<>>, msg_reply(canister))

CallMsgReject ==
    \E bytes \in ByteStrings :
        Call("msg_reject", [bytes |-> bytes], msg_reject(canister, bytes))

CallMsgCyclesAvailable == Call("msg_cycles_available", <<>>, msg_cycles_available(canister))

CallMsgCyclesAvailable128 ==
    Call("msg_cycles_available128", <<>>, msg_cycles_available128(canister))

CallMsgCyclesRefunded == Call("msg_cycles_refunded", <<>>, msg_cycles_refunded(canister))

CallMsgCyclesRefunded128 ==
    Call("msg_cycles_refunded128", <<>>, msg_cycles_refunded128(canister))

CallMsgCyclesAccept ==
    \E max_amount \in AmountArgs :
        Call("msg_cycles_accept", [max_amount |-> max_amount],
             msg_cycles_accept(canister, max_amount))

CallMsgCyclesAccept128 ==
    \E high \in AmountArgs, low \in AmountArgs :
        Call("msg_cycles_accept128", [max_amount_high |-> high, max_amount_low |-> low],
             msg_cycles_accept128(canister, high, low))

CallCanisterSelfSize == Call("canister_self_size", <<>>, canister_self_size(canister))

CallCanisterSelfCopy ==
    \E offset \in CopyArgs, size \in CopyArgs :
        Call("canister_self_copy", [offset |-> offset, size |-> size],
             canister_self_copy(canister, offset, size))

CallUnimplemented == \E call \in Unimplemented : Call(call, <<>>, todo(canister))

SystemCall ==
    \/ CallMsgArgDataSize
    \/ CallMsgArgDataCopy
    \/ CallMsgCallerSize
    \/ CallMsgCallerCopy
    \/ CallMsgRejectCode
    \/ CallMsgRejectMsgSize
    \/ CallMsgRejectMsgCopy
    \/ CallMsgReplyDataAppend
    \/ CallMsgReply
    \/ CallMsgReject
    \/ CallMsgCyclesAvailable
    \/ CallMsgCyclesAvailable128
    \/ CallMsgCyclesRefunded
    \/ CallMsgCyclesRefunded128
    \/ CallMsgCyclesAccept
    \/ CallMsgCyclesAccept128
    \/ CallCanisterSelfSize
    \/ CallCanisterSelfCopy
    \/ CallUnimplemented

Next ==
    \/ WithMethod
    \/ WithBalance
    \/ ProcessMessageSubmit
    \/ ProcessMessageReturn
    \/ ExecRecv
    \/ ExecRun
    \/ ExecSend
    \/ SystemCall

Spec == Init /\ [][Next]_vars

\* ------------------------------------------------------------ accept arithmetic
\* The amount each accept call computes, applied to every cycles_available
\* and every requested amount of the model's width.

Cycles == 0 .. (U128 - 1)

ArithInit ==
    /\ canister = NewCanister(QueryEnv)
    /\ overflow_checks \in BOOLEAN
    /\ task_q = <<>>
    /\ completion_q = <<>>
    /\ exec = [pc |-> "recv", task |-> NoTask, c |-> <<>>]
    /\ pm = [pc |-> "idle", calls |-> 0, message |-> None, task |-> None,
             replies_before |-> 0, faults |-> 0]
    /\ delivered = <<>>
    /\ last = [op |-> "new", args |-> <<>>, pre |-> None, ret |-> Ok(<<>>),
               sent |-> <<>>, wrote |-> None]
    /\ request_q = <<>>
    /\ reply_q = <<>>
    /\ handler = NoCalls
    /\ stores = NoStores

ApplyAcceptAmount ==
    \E available \in Cycles, max_amount \in SignedWords :
        /\ last.op = "new"
        /\ last' = [op |-> "accept_amount",
                    args |-> [cycles_available |-> available, max_amount |-> max_amount],
                    pre |-> None, ret |-> Ok(accept_amount(available, max_amount)),
                    sent |-> <<>>, wrote |-> None]
        /\ UNCHANGED <<canister, overflow_checks, task_q, completion_q, exec, pm, delivered>>
        /\ UNCHANGED calls
        /\ UNCHANGED stores

ApplyAccept128Amount ==
    \E available \in Cycles, high \in SignedWords, low \in SignedWords :
        /\ last.op = "new"
        /\ last' = [op |-> "accept128_amount",
                    args |-> [cycles_available |-> available, max_amount_high |-> high,
                              max_amount_low |-> low],
                    pre |-> None, ret |-> accept128_amount(available, high, low),
                    sent |-> <<>>, wrote |-> None]
        /\ UNCHANGED <<canister, overflow_checks, task_q, completion_q, exec, pm, delivered>>
        /\ UNCHANGED calls
        /\ UNCHANGED stores

ArithNext == ApplyAcceptAmount \/ ApplyAccept128Amount

ArithSpec == ArithInit /\ [][ArithNext]_vars

\* ------------------------------------------------------------ system calls of a task
\* The second arm of process_message's select loop, with a task that issues
\* system calls from the execution thread: the handle registered for that
\* thread sends each call as a request and waits for the response. (The
\* closure process_message builds itself issues none.)

HandlerTask == "handler"

\* The system calls the task picks from.
HandlerCalls == {"msg_arg_data_size", "msg_reply", "canister_self_size"}

\* `req.proxy(self)`: the proxy method the request names, on the Canister.
proxy(req, c) ==
    CASE req.op = "msg_arg_data_size" -> msg_arg_data_size(c)
      [] req.op = "msg_reply" -> msg_reply(c)
      [] req.op = "canister_self_size" -> canister_self_size(c)
      [] OTHER -> todo(c)

\* A second arm that sends its response twice.
responses_twice(req, res) == <<[req |-> req, res |-> res], [req |-> req, res |-> res]>>

\* `self.reply_tx.send(res)`: the responses sent for one request; `req` tells
\* which request the response was computed for.
responses(req, res) == <<[req |-> req, res |-> res]>>

RoundTripSubmit == Submit(HandlerTask)

\* The task issues a system call: the request goes out, the task waits.
HandlerIssue ==
    \E op \in HandlerCalls :
        /\ exec.pc = "run"
        /\ exec.task.fn = HandlerTask
        /\ handler.pc = "running"
        /\ Len(handler.issued) < MaxCalls
        /\ Len(request_q) < ChannelCapacity
        /\ LET req == [task |-> exec.task.seq, seq |-> Len(handler.issued) + 1, op |-> op]
           IN  /\ request_q' = Append(request_q, req)
               /\ handler' = [handler EXCEPT !.pc = "waiting", !.issued = Append(@, req)]
        /\ UNCHANGED <<canister, overflow_checks, task_q, completion_q, exec, pm,
                       delivered, last, reply_q, stores>>

\* The select loop's second arm: receive a request, run it on the Canister,
\* send the response. A panic in the call unwinds process_message.
ServeRequest ==
    /\ pm.pc = "select"
    /\ request_q # <<>>
    /\ LET req == Head(request_q)
           r == proxy(req, canister)
       IN  /\ request_q' = Tail(request_q)
           /\ canister' = r.c
           /\ delivered' = delivered \o r.sent
           /\ IF r.ret.k = "Panic"
              THEN /\ pm' = [pm EXCEPT !.pc = "panicked"]
                   /\ reply_q' = reply_q
              ELSE /\ Len(reply_q) + Len(responses(req, r.ret)) <= ChannelCapacity
                   /\ reply_q' = reply_q \o responses(req, r.ret)
                   /\ pm' = pm
    /\ UNCHANGED <<overflow_checks, task_q, completion_q, exec, last, handler, stores>>

\* The task gets the response it waits for and goes on.
HandlerReceive ==
    /\ handler.pc = "waiting"
    /\ reply_q # <<>>
    /\ reply_q' = Tail(reply_q)
    /\ handler' = [handler EXCEPT !.pc = "running", !.received = Append(@, Head(reply_q))]
    /\ UNCHANGED <<canister, overflow_checks, task_q, completion_q, exec, pm,
                   delivered, last, request_q, stores>>

RoundTripNext ==
    \/ RoundTripSubmit
    \/ ExecRecv
    \/ HandlerIssue
    \/ ServeRequest
    \/ HandlerReceive
    \/ ExecRun
    \/ ExecSend
    \/ ProcessMessageReturn

RoundTripSpec == Init /\ [][RoundTripNext]_vars

\* Both threads are scheduled fairly: a step of the execution thread or of
\* the select loop that stays possible is taken. A task is free to issue a
\* further call or not; it ends once it has stopped issuing calls.
FairRoundTripSpec ==
    /\ RoundTripSpec
    /\ WF_task_q(ExecRecv)
    /\ WF_<<exec.pc>>(ExecRun)
    /\ WF_completion_q(ExecSend)
    /\ WF_reply_q(HandlerReceive)
    /\ WF_request_q(ServeRequest)
    /\ WF_<<pm.pc>>(ProcessMessageReturn)

\* ------------------------------------------------------------ type-keyed storage
\* The storage API of ic-kit (ic/storage.rs) and the storage of IcContext
\* (ic.rs), for one type T. A stored value is <<v>>, no value is <<>>. A
\* callback is given the stored value; one that gets `&mut T` may write.

\* The values of T; T::default() is Default.
Values == {0, 1, 2}
Default == 0

\* What an operation does: the store afterwards and the value returned.
Stored(store, ret) == [store |-> store, ret |-> ret]

\* with(callback): the callback returns what it is given.
with(store) ==
    LET present == IF store = <<>> THEN <<Default>> ELSE store
    IN  Stored(present, present[1])

\* maybe_with(callback)
maybe_with(store) == Stored(store, store)

\* with_mut(callback): the callback writes `value` and returns what it was given.
with_mut(store, value) ==
    LET present == IF store = <<>> THEN <<Default>> ELSE store
    IN  Stored(<<value>>, present[1])

\* maybe_with_mut(callback)
maybe_with_mut(store, value) ==
    IF store = <<>> THEN Stored(<<>>, <<>>) ELSE Stored(<<value>>, store)

take(store) == Stored(<<>>, store)

swap(store, value) == Stored(<<value>>, store)

\* IcContext::get_mut::<T>(): `write` is what the caller stores through the
\* reference it gets (<<>> when it only reads); the value returned is the
\* one the reference points at.
get_mut(store, write) ==
    LET present == IF store = <<>> THEN <<Default>> ELSE store
    IN  Stored(IF write = <<>> THEN present ELSE write, present[1])

\* A delete that reports a removal whether or not a value was there.
delete_reports_true(store) == Stored(<<>>, TRUE)

\* IcContext::delete::<T>()
delete(store) == Stored(<<>>, store # <<>>)

\* One operation on STORAGE, one on the IcContext.
OnStorage(op, args, r) ==
    /\ stores' = [stores EXCEPT !.storage = r.store]
    /\ last' = [op |-> op, args |-> args, pre |-> stores.storage, ret |-> r.ret,
                sent |-> <<>>, wrote |-> None]
    /\ UNCHANGED <<canister, overflow_checks, task_q, completion_q, exec, pm, delivered>>
    /\ UNCHANGED calls

OnContext(op, args, r) ==
    /\ stores' = [stores EXCEPT !.context = r.store]
    /\ last' = [op |-> op, args |-> args, pre |-> stores.context, ret |-> r.ret,
                sent |-> <<>>, wrote |-> None]
    /\ UNCHANGED <<canister, overflow_checks, task_q, completion_q, exec, pm, delivered>>
    /\ UNCHANGED calls

StorageWith == OnStorage("with", <<>>, with(stores.storage))

StorageMaybeWith == OnStorage("maybe_with", <<>>, maybe_with(stores.storage))

StorageWithMut ==
    \E v \in Values : OnStorage("with_mut", <<v>>, with_mut(stores.storage, v))

StorageMaybeWithMut ==
    \E v \in Values : OnStorage("maybe_with_mut", <<v>>, maybe_with_mut(stores.storage, v))

StorageTake == OnStorage("take", <<>>, take(stores.storage))

StorageSwap == \E v \in Values : OnStorage("swap", <<v>>, swap(stores.storage, v))

ContextGetMut ==
    \E write \in {<<>>} \cup {<<v>> : v \in Values} :
        OnContext("get_mut", write, get_mut(stores.context, write))

ContextDelete == OnContext("delete", <<>>, delete(stores.context))

StorageNext ==
    \/ StorageWith
    \/ StorageMaybeWith
    \/ StorageWithMut
    \/ StorageMaybeWithMut
    \/ StorageTake
    \/ StorageSwap
    \/ ContextGetMut
    \/ ContextDelete

StorageSpec == ArithInit /\ [][StorageNext]_vars

\* ------------------------------------------------------------ a pending request
\* The system calls as functions of the Canister, applied in sequence to a
\* Canister as they expect it during an invocation: an incoming request
\* identity is the active request_id (`self.request_id` is Some) and its
\* response channel is in msg_reply_senders. No statement of canister.rs
\* brings a Canister constructed by Canister::new into this state (C23).

IncomingRequest == "request"
ResponseChannel == "oneshot"

WithPendingRequest(c) ==
    [c EXCEPT !.request_id = IncomingRequest,
              !.msg_reply_senders = MapPut(@, IncomingRequest, ResponseChannel)]

PendingInit ==
    /\ \E env \in EnvDefaults : canister = WithPendingRequest(NewCanister(env))
    /\ overflow_checks \in BOOLEAN
    /\ task_q = <<>>
    /\ completion_q = <<>>
    /\ exec = [pc |-> "recv", task |-> NoTask, c |-> <<>>]
    /\ pm = [pc |-> "idle", calls |-> 0, message |-> None, task |-> None,
             replies_before |-> 0, faults |-> 0]
    /\ delivered = <<>>
    /\ last = [op |-> "new", args |-> <<>>, pre |-> None, ret |-> Ok(<<>>),
               sent |-> <<>>, wrote |-> None]
    /\ request_q = <<>>
    /\ reply_q = <<>>
    /\ handler = NoCalls
    /\ stores = NoStores

PendingSpec == PendingInit /\ [][SystemCall]_vars

\* ------------------------------------------------------------ properties

\* The entry modes the reply-path claims name: update, query, both callbacks.
AnsweringModes == {"Update", "Query", "ReplyCallback", "RejectCallback"}

\* The replies delivered before the most recent call.
DeliveredBefore == SubSeq(delivered, 1, Len(delivered) - Len(last.sent))

\* C1: in update, query or callback mode the first msg_reply / msg_reject for
\* a request succeeds and delivers one CanisterReply; a later one returns an
\* error and leaves the delivered reply as it is.
C1_FirstReplyDelivers ==
    (/\ last.op \in {"msg_reply", "msg_reject"}
     /\ last.pre.env.entry_mode \in AnsweringModes)
        => IF \A i \in 1 .. Len(DeliveredBefore) :
                    DeliveredBefore[i].id # last.pre.request_id
           THEN /\ last.ret.k = "Ok"
                /\ last.sent # <<>>
                /\ delivered = DeliveredBefore \o last.sent
           ELSE /\ last.ret.k = "Err"
                /\ last.sent = <<>>

\* C2: every invocation driven by process_message produces exactly one
\* CanisterReply: one once process_message has returned, never more.
C2_ExactlyOneReply ==
    last.op = "process_message"
        => /\ Len(delivered) <= pm.replies_before + 1
           /\ last.ret.k = "Ok" => Len(delivered) = pm.replies_before + 1

\* C3: process_message submits the task registered under the export name the
\* message carries; the echo query handler given [1,2,3] yields
\* Reply{data: [1,2,3], cycles_refunded: 0}.
C3_RegisteredTaskRuns ==
    (/\ last.op = "process_message"
     /\ last.args.message.name \in DOMAIN canister.symbol_table)
        => /\ last.args.task.fn = canister.symbol_table[last.args.message.name]
           /\ (/\ last.ret.k = "Ok"
               /\ canister.symbol_table[last.args.message.name] = "echo"
               /\ last.args.message.env = QueryEnv)
                  => /\ Len(delivered) = pm.replies_before + 1
                     /\ delivered[Len(delivered)].kind = "Reply"
                     /\ delivered[Len(delivered)].data = <<1, 2, 3>>
                     /\ delivered[Len(delivered)].cycles_refunded = 0

\* process_message has returned on the signal of a task that panicked.
C4_Faulted ==
    /\ last.op = "process_message"
    /\ last.ret.k = "Ok"
    /\ last.ret.v.outcome.k = "panic"

C5_NoStaleSignal ==
    /\ exec.pc # "dead"
    /\ pm.pc = "select"
          => \A i \in 1 .. Len(completion_q) : completion_q[i].task = pm.task
    /\ (last.op = "process_message" /\ last.ret.k = "Ok")
          => last.ret.v.task = last.args.task

C5_Witness ==
    /\ last.op = "process_message"
    /\ last.ret.k = "Ok"
    /\ last.args.task.seq = 2
    /\ last.ret.v.outcome.k = "return"
    /\ pm.faults = 1

\* C6: with_method with an export name already in the symbol table panics
\* (the Canister is gone before any message is processed) and leaves the
\* table as it was; with a new name it adds that one entry; no other call
\* changes the table, so every name keeps the task of its first registration.
C6_NoOverwrite ==
    /\ last.op = "with_method"
          => IF last.args.name \in DOMAIN last.pre.symbol_table
             THEN /\ last.ret.k = "Panic"
                  /\ pm.pc = "panicked"
                  /\ canister.symbol_table = last.pre.symbol_table
             ELSE /\ last.ret.k = "Ok"
                  /\ canister.symbol_table =
                         MapPut(last.pre.symbol_table, last.args.name, last.args.task_fn)
    /\ last.op \notin {"with_method", "new"}
          => canister.symbol_table = last.pre.symbol_table

C6_Witness ==
    /\ last.op = "with_method"
    /\ last.args.name \in DOMAIN last.pre.symbol_table
    /\ last.pre.symbol_table[last.args.name] # last.args.task_fn
    /\ last.ret.k = "Panic"

\* The mode-gated system calls and the modes each lets through.
GatedCalls ==
    {"msg_arg_data_size", "msg_arg_data_copy", "msg_caller_size", "msg_caller_copy",
     "msg_reject_code", "msg_reject_msg_size", "msg_reject_msg_copy",
     "msg_reply_data_append", "msg_reply", "msg_reject", "msg_cycles_available",
     "msg_cycles_available128", "msg_cycles_refunded", "msg_cycles_refunded128",
     "msg_cycles_accept", "msg_cycles_accept128"}

AllowedModes(call) ==
    CASE call = "msg_arg_data_size" -> msg_arg_data_size_modes
      [] call = "msg_arg_data_copy" -> msg_arg_data_copy_modes
      [] call = "msg_caller_size" -> msg_caller_size_modes
      [] call = "msg_caller_copy" -> msg_caller_copy_modes
      [] call = "msg_reject_code" -> msg_reject_code_modes
      [] call = "msg_reject_msg_size" -> msg_reject_msg_size_modes
      [] call = "msg_reject_msg_copy" -> msg_reject_msg_copy_modes
      [] call = "msg_reply_data_append" -> msg_reply_data_append_modes
      [] call = "msg_reply" -> msg_reply_modes
      [] call = "msg_reject" -> msg_reject_modes
      [] call = "msg_cycles_available" -> msg_cycles_available_modes
      [] call = "msg_cycles_available128" -> msg_cycles_available128_modes
      [] call = "msg_cycles_refunded" -> msg_cycles_refunded_modes
      [] call = "msg_cycles_refunded128" -> msg_cycles_refunded128_modes
      [] call = "msg_cycles_accept" -> msg_cycles_accept_modes
      [] call = "msg_cycles_accept128" -> msg_cycles_accept128_modes
      [] OTHER -> EntryModes

\* C7: msg_cycles_accept in a permitted mode accepts min(requested,
\* cycles_available), returns that amount, takes it from cycles_available and
\* adds it to cycles_accepted.
C7_AcceptTakesMinimum ==
    (/\ last.op = "msg_cycles_accept"
     /\ last.pre.env.entry_mode \in msg_cycles_accept_modes)
        => LET accepted ==
                   Min(AsUnsigned(last.args.max_amount), last.pre.env.cycles_available)
           IN  /\ last.ret.k = "Ok"
               /\ AsUnsigned(last.ret.v) = accepted
               /\ canister.env.cycles_available =
                      last.pre.env.cycles_available - accepted
               /\ canister.cycles_accepted = last.pre.cycles_accepted + accepted

\* C8: msg_cycles_accept128(high, low) moves min(high * 2^64 + low,
\* cycles_available), and with high = 0 the amount msg_cycles_accept(low) moves.
C8_AcceptVariantsAgree ==
    last.op = "accept128_amount"
        => /\ last.ret.k = "Ok"
           /\ last.ret.v =
                  Min(AsUnsigned(last.args.max_amount_high) * WORD
                          + AsUnsigned(last.args.max_amount_low),
                      last.args.cycles_available)
           /\ last.args.max_amount_high = 0
                  => last.ret.v =
                         accept_amount(last.args.cycles_available, last.args.max_amount_low)

\* The buffer-copy system calls and the buffer each copies from.
CopyCalls ==
    {"msg_arg_data_copy", "msg_caller_copy", "msg_reject_msg_copy", "canister_self_copy"}

CopySource(call, c) ==
    CASE call = "msg_arg_data_copy" -> c.env.args
      [] call = "msg_caller_copy" -> c.env.sender
      [] call = "msg_reject_msg_copy" -> c.env.rejection_message
      [] call = "canister_self_copy" -> c.canister_id

\* C9: a buffer-copy call whose offset + size (as unsigned machine integers)
\* exceeds the source's length returns an error and writes nothing; otherwise
\* it copies exactly source[offset .. offset + size].
C9_BoundsCheckedCopy ==
    (/\ last.op \in CopyCalls
     /\ last.pre.env.entry_mode \in AllowedModes(last.op))
        => LET o == AsUnsigned(last.args.offset)
               n == AsUnsigned(last.args.size)
               data == CopySource(last.op, last.pre)
           IN  IF o + n > Len(data)
               THEN last.ret.k = "Err" /\ last.wrote = None
               ELSE last.ret.k = "Ok" /\ last.wrote = SubSeq(data, o + 1, o + n)

\* A mode-gated call was made in an entry mode that does not permit it.
C10_Disallowed ==
    /\ last.op \in GatedCalls
    /\ last.pre.env.entry_mode \notin AllowedModes(last.op)

\* C10: a mode-gated system call made in an entry mode that does not permit
\* it returns an error whose text names that entry mode (and no other), and
\* leaves the Canister, the delivered replies and the caller's memory as
\* they were.
C10_DisallowedModeIsInert ==
    C10_Disallowed
        => /\ last.ret =
                  Err(<<last.op, "can not be called from",
                        get_entry_point_name(last.pre.env)>>)
           /\ \A e \in EnvDefaults :
                  e.entry_mode # last.pre.env.entry_mode
                      => get_entry_point_name(e) # last.ret.v[3]
           /\ canister = last.pre
           /\ last.sent = <<>>
           /\ last.wrote = None
           /\ pm.pc = "idle"

C10_Witness ==
    /\ C10_Disallowed
    /\ last.op = "msg_cycles_accept"
    /\ last.pre.env.entry_mode = "Query"
    /\ last.args.max_amount = 3
    /\ last.ret.k = "Err"

\* The system calls the proxy implements.
Implemented == GatedCalls \cup {"canister_self_size", "canister_self_copy"}

\* The reply-path calls.
ReplyPathCalls == {"msg_reply_data_append", "msg_reply", "msg_reject"}

\* The most recent call was an implemented system call made under one of the
\* protocol-misuse conditions, or a reply-path call in whatever state the
\* engine was in.
C11_Misuse ==
    /\ last.op \in Implemented
    /\ \/ C10_Disallowed
       \/ last.op \in ReplyPathCalls
       \/ /\ last.op \in CopyCalls
          /\ AsUnsigned(last.args.offset) + AsUnsigned(last.args.size)
                 > Len(CopySource(last.op, last.pre))

\* C11: a protocol misuse in an implemented system call (disallowed mode, a
\* reply-path call in any reachable state, an out-of-bounds copy) comes back
\* as a returned value, Err for a misuse, and never as a panic of the thread
\* that services the call.
C11_MisuseReturnsErr ==
    C11_Misuse
        => /\ last.ret.k \in {"Ok", "Err"}
           /\ pm.pc # "panicked"
           /\ (C10_Disallowed \/ last.op \in CopyCalls) => last.ret.k = "Err"

\* C12: an unimplemented system call halts: it returns no value, and leaves
\* the Canister, the delivered replies and the caller's memory as they were.
C12_UnimplementedHalts ==
    last.op \in Unimplemented
        => /\ last.ret.k = "Panic"
           /\ pm.pc = "panicked"
           /\ canister = last.pre
           /\ last.sent = <<>>
           /\ last.wrote = None

C12_Witness ==
    /\ last.op = "call_perform"
    /\ last.ret = Panic("not yet implemented")
    /\ canister.env.entry_mode = "Update"

\* C13: within one invocation each system call is a full round trip, served
\* in issue order: at most one request of the task is outstanding, the task
\* waits (and its completion is not signalled) until the response has been
\* sent and received, and the i-th response the task gets was computed for
\* the i-th request it issued.
C13_RoundTrips ==
    /\ Len(request_q) + Len(reply_q) <= 1
    /\ (request_q # <<>> \/ reply_q # <<>>) => handler.pc = "waiting"
    /\ Len(handler.issued) =
           Len(handler.received) + (IF handler.pc = "waiting" THEN 1 ELSE 0)
    /\ \A i \in 1 .. Len(handler.received) :
           handler.received[i].req = handler.issued[i]
    /\ handler.pc = "waiting"
           => /\ exec.pc = "run"
              /\ \A i \in 1 .. Len(completion_q) : completion_q[i].task # exec.task

C13_Witness ==
    /\ Len(handler.received) = 2
    /\ handler.received[1].req.op = "msg_reply"
    /\ handler.received[1].res.k = "Err"
    /\ handler.received[2].req.op = "canister_self_size"
    /\ handler.received[2].res = Ok(2)
    /\ pm.pc = "idle"
    /\ pm.calls = 2

\* The most recent call was a reply-path call in an answering mode, and
\* answered tells whether a CanisterReply had been delivered for the active
\* request before it.
ReplyPathCall == last.op \in ReplyPathCalls /\ last.pre.env.entry_mode \in AnsweringModes

Answered ==
    \E i \in 1 .. Len(DeliveredBefore) : DeliveredBefore[i].id = last.pre.request_id

IsModeError ==
    /\ last.ret.k = "Err"
    /\ last.ret.v = <<last.op, "can not be called from", get_entry_point_name(last.pre.env)>>

CallerCalls == {"msg_caller_size", "msg_caller_copy"}

\* What a caller call does in the entry modes `permitted`: it is let through
\* there, msg_caller_size returning the length of the Env's caller bytes and
\* msg_caller_copy writing bytes of them, and refused with a mode error
\* everywhere else.
CallerCallsPermittedIn(permitted) ==
    last.op \in CallerCalls
        => IF last.pre.env.entry_mode \in permitted
           THEN /\ ~IsModeError
                /\ last.op = "msg_caller_size"
                       => last.ret.k = "Ok" /\ last.ret.v = Len(last.pre.env.sender)
                /\ (last.op = "msg_caller_copy" /\ last.ret.k = "Ok")
                       => last.wrote =
                              SubSeq(last.pre.env.sender,
                                     AsUnsigned(last.args.offset) + 1,
                                     AsUnsigned(last.args.offset) + AsUnsigned(last.args.size))
           ELSE /\ IsModeError
                /\ last.wrote = None

\* C17, as claimed: msg_caller_size and msg_caller_copy succeed in every
\* entry mode other than ReplyCallback and RejectCallback, and fail in those.
C17_CallerExceptCallbacks ==
    CallerCallsPermittedIn(EntryModes \ {"ReplyCallback", "RejectCallback"})

\* C17, amended: msg_caller_size and msg_caller_copy are let through in Init,
\* PreUpgrade, PostUpgrade, InspectMessage, Update, Query and CustomTask,
\* exposing the Env's caller bytes, and return a mode error in Heartbeat,
\* ReplyCallback and RejectCallback.
C17_CallerModes ==
    CallerCallsPermittedIn({"Init", "PreUpgrade", "PostUpgrade", "InspectMessage",
                            "Update", "Query", "CustomTask"})

C17_Witness ==
    /\ last.op = "msg_caller_size"
    /\ last.pre.env.entry_mode = "Heartbeat"
    /\ last.ret = Err(<<"msg_caller_size", "can not be called from", "canister_heartbeat">>)

RejectCalls == {"msg_reject_code", "msg_reject_msg_size", "msg_reject_msg_copy"}

\* What a reject-introspection call does when msg_reject_code is let through
\* in the modes `code_modes` and the two message calls in `msg_modes`.
RejectCallsPermittedIn(code_modes, msg_modes) ==
    last.op \in RejectCalls
        => IF last.pre.env.entry_mode
                  \in (IF last.op = "msg_reject_code" THEN code_modes ELSE msg_modes)
           THEN /\ ~IsModeError
                /\ last.op = "msg_reject_code"
                       => last.ret.k = "Ok" /\ last.ret.v = last.pre.env.rejection_code
                /\ last.op = "msg_reject_msg_size"
                       => /\ last.ret.k = "Ok"
                          /\ last.ret.v = Len(last.pre.env.rejection_message)
           ELSE /\ IsModeError
                /\ last.wrote = None

\* C18, as claimed: msg_reject_code, msg_reject_msg_size and
\* msg_reject_msg_copy succeed only in RejectCallback or CustomTask and return
\* a mode error in every other entry mode.
C18_RejectOnlyInRejectCallback ==
    RejectCallsPermittedIn({"RejectCallback", "CustomTask"}, {"RejectCallback", "CustomTask"})

\* C18, amended: msg_reject_msg_size and msg_reject_msg_copy are let through
\* only in RejectCallback or CustomTask; msg_reject_code is let through in
\* those and in ReplyCallback as well; each returns a mode error in every
\* other entry mode.
C18_RejectModes ==
    RejectCallsPermittedIn({"RejectCallback", "CustomTask", "ReplyCallback"},
                           {"RejectCallback", "CustomTask"})

C18_Witness ==
    /\ last.op = "msg_reject_code"
    /\ last.pre.env.entry_mode = "ReplyCallback"
    /\ last.ret = Ok(4)

\* What a reply-path call does when only the modes `permitted` pass its gate:
\* everywhere else it returns a mode error, delivers nothing and changes
\* nothing.
ReplyPathPermittedIn(permitted) ==
    last.op \in ReplyPathCalls
        => IF last.pre.env.entry_mode \in permitted
           THEN ~IsModeError
           ELSE /\ IsModeError
                /\ last.sent = <<>>
                /\ delivered = DeliveredBefore
                /\ canister = last.pre

\* C19, as claimed: the reply-path calls are accepted only in Update, Query,
\* ReplyCallback or RejectCallback, and return a mode error and deliver
\* nothing in every other entry mode, CustomTask included.
C19_ReplyPathOnlyAnswering == ReplyPathPermittedIn(AnsweringModes)

\* C19, amended: the reply-path calls pass the mode gate only in Update,
\* Query, ReplyCallback, RejectCallback or CustomTask, and return a mode
\* error and deliver nothing in Init, PreUpgrade, PostUpgrade, InspectMessage
\* and Heartbeat.
C19_ReplyPathModes == ReplyPathPermittedIn(AnsweringModes \cup {"CustomTask"})

C19_Witness ==
    /\ last.op = "msg_reply"
    /\ last.pre.env.entry_mode = "InspectMessage"
    /\ last.ret.k = "Err"
    /\ delivered = <<>>

\* C20: when process_message begins an invocation the active Env is the
\* message's own, so nothing of the Env before it is visible.
C20_FreshEnv ==
    last.op = "process_message" => canister.env = last.args.message.env

Given(store) == IF store = <<>> THEN Default ELSE store[1]

RequestCalls == ReplyPathCalls \cup {"msg_cycles_accept", "msg_cycles_accept128"}

\* C23: in an invocation whose entry mode permits reply construction or
\* cycle acceptance a request identity is the active request_id and its
\* response channel is pending, and none of the calls that look it up
\* reaches the 'request_id not set' fault.
C23_RequestIdentitySet ==
    /\ (/\ last.op = "process_message"
        /\ canister.env.entry_mode \in msg_reply_modes \cup msg_cycles_accept_modes)
           => /\ canister.request_id # None
              /\ canister.request_id \in DOMAIN canister.msg_reply_senders
    /\ last.op \in RequestCalls
           => ~(last.ret.k = "Panic" /\ last.ret.v = RequestIdNotSet.v)

\* The cycles_refunded of the CanisterReply values in replies, summed.
RECURSIVE SumRefunded(_)
SumRefunded(replies) ==
    IF replies = <<>> THEN 0
    ELSE Head(replies).cycles_refunded + SumRefunded(Tail(replies))

AcceptCalls == {"msg_cycles_accept", "msg_cycles_accept128"}

TaskInFlight ==
    Len(task_q) + (IF exec.pc \in {"run", "send"} THEN 1 ELSE 0) + Len(completion_q)

C29_ArgCallsSameModes ==
    last.op \in {"msg_arg_data_size", "msg_arg_data_copy"}
        => (msg_arg_data_size(last.pre).ret.k = "Err")
               = (msg_arg_data_copy(last.pre, 0, 0).ret.k = "Err")

\* C30: when process_message returns the channels are quiescent: no request
\* is left in the request channel and no response in the reply channel, and
\* what the channels hold belongs to the task of the invocation in progress.
C30_QuiescentOnReturn ==
    /\ pm.pc = "idle"
           => /\ request_q = <<>>
              /\ reply_q = <<>>
              /\ handler.pc = "running"
    /\ \A i \in 1 .. Len(request_q) : request_q[i].task = pm.task.seq
    /\ \A i \in 1 .. Len(reply_q) : reply_q[i].req.task = pm.task.seq

\* process_message returned for the second time, after a task whose two
\* system calls were served.
C30_Witness ==
    /\ pm.pc = "idle"
    /\ pm.calls = 2
    /\ last.op = "process_message"
    /\ last.ret.k = "Ok"
    /\ Len(handler.issued) = 2
    /\ Len(handler.received) = 2
    /\ handler.issued[2].task = 2
    /\ handler.received[2].req.op = "msg_arg_data_size"
====
